---- MODULE Spec2Model ----
(***************************************************************************)
(* Model of ArabicG2P (src/arabic_g2p.py): transliteration to Buckwalter,  *)
(* phonological normalisation, word segmentation, the phoneme tokenizer    *)
(* and the Buckwalter-to-IPA symbol mapper.                                *)
(*                                                                         *)
(* A Python str is a sequence of characters.  An ASCII character is the    *)
(* one-character TLA+ string; any other code point is written "U+XXXX".    *)
(* A Python value is a record [type, val]: type is "str", "bytes" or       *)
(* "NoneType"; val is the sequence of characters (of byte values for       *)
(* bytes, empty for None).                                                 *)
(***************************************************************************)
EXTENDS Integers, Sequences, FiniteSets, TLC

\* ------------------------------------------------------------------ bounds

\* Longest enumerated argument (characters) of each entry point.
MaxLen == 3

\* ------------------------------------------------------- string primitives

\* The set of sequences over S of length at most n.
StrUpTo(S, n) == UNION {[1..m -> S] : m \in 0..n}

\* s[a:] in Python terms, a counted from 1.
Drop(s, n) == SubSeq(s, n + 1, Len(s))

\* str.startswith
StartsWith(s, p) == Len(p) <= Len(s) /\ SubSeq(s, 1, Len(p)) = p

\* str.replace(old, new): leftmost, non-overlapping, one pass.
RECURSIVE replace(_, _, _)
replace(s, old, new) ==
    IF Len(s) < Len(old) THEN s
    ELSE IF StartsWith(s, old)
         THEN new \o replace(Drop(s, Len(old)), old, new)
         ELSE <<s[1]>> \o replace(Tail(s), old, new)

\* str.count(sub): non-overlapping occurrences.
RECURSIVE count(_, _)
count(s, sub) ==
    IF Len(s) < Len(sub) THEN 0
    ELSE IF StartsWith(s, sub)
         THEN 1 + count(Drop(s, Len(sub)), sub)
         ELSE count(Tail(s), sub)

\* Index of the first occurrence of sep in s at or after position p, 0 if none.
RECURSIVE find(_, _, _)
find(s, sep, p) ==
    IF p + Len(sep) - 1 > Len(s) THEN 0
    ELSE IF SubSeq(s, p, p + Len(sep) - 1) = sep THEN p
    ELSE find(s, sep, p + 1)

\* str.split(sep) with an explicit separator: empty pieces are kept.
RECURSIVE split(_, _)
split(s, sep) ==
    LET p == find(s, sep, 1)
    IN  IF p = 0 THEN <<s>>
        ELSE <<SubSeq(s, 1, p - 1)>> \o split(Drop(s, p + Len(sep) - 1), sep)

\* sep.join(parts)
RECURSIVE join(_, _)
join(parts, sep) ==
    IF parts = <<>> THEN <<>>
    ELSE IF Len(parts) = 1 THEN parts[1]
    ELSE parts[1] \o sep \o join(Tail(parts), sep)

\* The characters str.strip() removes (str.isspace).
Whitespace ==
    {" ", "U+0009", "U+000A", "U+000B", "U+000C", "U+000D", "U+001C", "U+001D",
     "U+001E", "U+001F", "U+0085", "U+00A0", "U+1680", "U+2000", "U+2001",
     "U+2002", "U+2003", "U+2004", "U+2005", "U+2006", "U+2007", "U+2008",
     "U+2009", "U+200A", "U+2028", "U+2029", "U+202F", "U+205F", "U+3000"}

\* word.strip(), as far as its emptiness goes: "not word.strip()".
strip_is_empty(word) == \A k \in 1..Len(word) : word[k] \in Whitespace

\* A Python value.
PyValue(type, val) == [type |-> type, val |-> val]
PyStr(s) == PyValue("str", s)
PyNone == PyValue("NoneType", <<>>)

\* The literals 'sil' and '-'.
Sil == <<"s", "i", "l">>
Hyphen == <<"-">>

\* ------------------------------------------------------------------ tables

\* self.arabic_to_buckw_dict
arabic_to_buckw_dict ==
    ("U+0628" :> "b") @@ ("U+0630" :> "*") @@ ("U+0637" :> "T") @@ ("U+0645" :> "m") @@
    ("U+062A" :> "t") @@ ("U+0631" :> "r") @@ ("U+0638" :> "Z") @@ ("U+0646" :> "n") @@
    ("U+062B" :> "^") @@ ("U+0632" :> "z") @@ ("U+0639" :> "E") @@ ("U+0647" :> "h") @@
    ("U+062C" :> "j") @@ ("U+0633" :> "s") @@ ("U+063A" :> "g") @@ ("U+062D" :> "H") @@
    ("U+0642" :> "q") @@ ("U+0641" :> "f") @@ ("U+062E" :> "x") @@ ("U+0635" :> "S") @@
    ("U+0634" :> "$") @@ ("U+062F" :> "d") @@ ("U+0636" :> "D") @@ ("U+0643" :> "k") @@
    ("U+0623" :> ">") @@ ("U+0621" :> "'") @@ ("U+0626" :> "}") @@ ("U+0624" :> "&") @@
    ("U+0625" :> "<") @@ ("U+0622" :> "|") @@ ("U+0627" :> "A") @@ ("U+0649" :> "Y") @@
    ("U+0629" :> "p") @@ ("U+064A" :> "y") @@ ("U+0644" :> "l") @@ ("U+0648" :> "w") @@
    ("U+064B" :> "F") @@ ("U+064C" :> "N") @@ ("U+064D" :> "K") @@ ("U+064E" :> "a") @@
    ("U+064F" :> "u") @@ ("U+0650" :> "i") @@ ("U+0651" :> "~") @@ ("U+0652" :> "o")

\* self.buckwalter_to_ipa, by the groups of the source.  Keys and values are
\* strings (sequences of characters).
ipa_consonants ==
    (<<"b">> :> <<"b">>) @@ (<<"t">> :> <<"t">>) @@ (<<"^">> :> <<"s">>) @@
    (<<"j">> :> <<"g">>) @@
    (<<"H">> :> <<"U+0127">>) @@ (<<"x">> :> <<"x">>) @@ (<<"d">> :> <<"d">>) @@
    (<<"*">> :> <<"z">>) @@
    (<<"r">> :> <<"r">>) @@ (<<"z">> :> <<"z">>) @@ (<<"s">> :> <<"s">>) @@
    (<<"$">> :> <<"U+0283">>) @@
    (<<"S">> :> <<"s", "U+02E4">>) @@ (<<"D">> :> <<"d", "U+02E4">>) @@
    (<<"T">> :> <<"t", "U+02E4">>) @@ (<<"Z">> :> <<"z", "U+02E4">>) @@
    (<<"E">> :> <<"U+0295">>) @@
    (<<"g">> :> <<"U+0263">>) @@
    (<<"f">> :> <<"f">>) @@ (<<"q">> :> <<"q">>) @@ (<<"k">> :> <<"k">>) @@
    (<<"l">> :> <<"l">>) @@
    (<<"m">> :> <<"m">>) @@ (<<"n">> :> <<"n">>) @@ (<<"h">> :> <<"h">>) @@
    (<<"w">> :> <<"w">>) @@ (<<"y">> :> <<"j">>)

\* A hamza table that lost the entry of the seat every variant collapses to.
ipa_hamza_without_collapsed_seat ==
    (<<">">> :> <<"U+0294">>) @@ (<<"'">> :> <<"U+0294">>) @@
    (<<"}">> :> <<"U+0294">>) @@ (<<"&">> :> <<"U+0294">>) @@
    (<<"|">> :> <<"U+0294">>)

\* Hamza variants and madda: all the glottal stop.
ipa_hamza ==
    (<<">">> :> <<"U+0294">>) @@ (<<"<">> :> <<"U+0294">>) @@
    (<<"'">> :> <<"U+0294">>) @@ (<<"}">> :> <<"U+0294">>) @@
    (<<"&">> :> <<"U+0294">>) @@
    (<<"|">> :> <<"U+0294">>)

\* Ta marboota, short vowels, long vowels.
ipa_vowels ==
    (<<"p">> :> <<"t">>) @@
    (<<"a">> :> <<"a">>) @@ (<<"i">> :> <<"i">>) @@ (<<"u">> :> <<"u">>) @@
    (<<"a", "a">> :> <<"a", "U+02D0">>) @@ (<<"A">> :> <<"a", "U+02D0">>) @@
    (<<"Y">> :> <<"a", "U+02D0">>) @@
    (<<"i", "i">> :> <<"i", "U+02D0">>) @@ (<<"u", "u">> :> <<"u", "U+02D0">>)

\* Vowel variants with numbers, emphatic variants.
ipa_numbered_vowels ==
    (<<"i", "0">> :> <<"i">>) @@ (<<"i", "1">> :> <<"i">>) @@
    (<<"u", "0">> :> <<"u">>) @@ (<<"u", "1">> :> <<"u">>) @@
    (<<"i", "i", "0">> :> <<"i", "U+02D0">>) @@ (<<"i", "i", "1">> :> <<"i", "U+02D0">>) @@
    (<<"u", "u", "0">> :> <<"u", "U+02D0">>) @@ (<<"u", "u", "1">> :> <<"u", "U+02D0">>) @@
    (<<"I", "0">> :> <<"U+026A">>) @@ (<<"I", "1">> :> <<"U+026A">>) @@
    (<<"U", "0">> :> <<"U+028A">>) @@ (<<"U", "1">> :> <<"U+028A">>) @@
    (<<"I", "I", "0">> :> <<"U+026A", "U+02D0">>) @@
    (<<"I", "I", "1">> :> <<"U+026A", "U+02D0">>) @@
    (<<"U", "U", "0">> :> <<"U+028A", "U+02D0">>) @@
    (<<"U", "U", "1">> :> <<"U+028A", "U+02D0">>) @@
    (<<"A", "A">> :> <<"U+0251", "U+02D0">>)

\* self.buckwalter_to_ipa
buckwalter_to_ipa ==
    ipa_consonants @@ ipa_hamza @@ ipa_vowels @@ ipa_numbered_vowels

\* self.unambiguousConsonantMap
unambiguousConsonantMap ==
    ("b" :> "b") @@ ("*" :> "*") @@ ("T" :> "T") @@ ("m" :> "m") @@
    ("t" :> "t") @@ ("r" :> "r") @@ ("Z" :> "Z") @@ ("n" :> "n") @@
    ("^" :> "^") @@ ("z" :> "z") @@ ("E" :> "E") @@ ("h" :> "h") @@
    ("j" :> "j") @@ ("s" :> "s") @@ ("g" :> "g") @@ ("H" :> "H") @@
    ("q" :> "q") @@ ("f" :> "f") @@ ("x" :> "x") @@ ("S" :> "S") @@
    ("$" :> "$") @@ ("d" :> "d") @@ ("D" :> "D") @@ ("k" :> "k") @@
    (">" :> "<") @@ ("'" :> "<") @@ ("}" :> "<") @@ ("&" :> "<") @@
    ("<" :> "<")

\* A vowel map whose short vowels expand to the two-character long spelling.
vowelMap_short_expanded ==
    ("A" :> <<"a", "a">>) @@ ("Y" :> <<"a", "a">>) @@ ("a" :> <<"a", "a">>) @@
    ("i" :> <<"i", "i">>) @@ ("u" :> <<"u", "u">>)

\* self.vowelMap
vowelMap ==
    ("A" :> <<"a", "a">>) @@ ("Y" :> <<"a", "a">>) @@ ("a" :> <<"a">>) @@
    ("i" :> <<"i">>) @@ ("u" :> <<"u">>)

\* self.consonants
consonants ==
    {">", "<", "}", "&", "'", "b", "t", "^", "j", "H", "x", "d", "*", "r",
     "z", "s", "$", "S", "D", "T", "Z", "E", "g", "f", "q", "k", "l", "m",
     "n", "h", "|"}

\* The literal list of two-character combinations of process_word_simple.
long_vowel_digraphs ==
    {<<"a", "a">>, <<"i", "i">>, <<"u", "u">>,
     <<"A", "A">>, <<"I", "I">>, <<"U", "U">>}

\* --------------------------------------------------------- pure functions

\* arabic_to_buckwalter that forgets the else branch: unmapped letters vanish.
RECURSIVE arabic_to_buckwalter_drop_unmapped(_)
arabic_to_buckwalter_drop_unmapped(word) ==
    IF word.type = "NoneType" \/ (word.type = "bytes" /\ word.val # <<>>)
    THEN [exc |-> "TypeError", val |-> <<>>]
    ELSE [exc |-> "none",
          val |-> IF word.val = <<>> THEN <<>>
                  ELSE (IF word.val[1] \in DOMAIN arabic_to_buckw_dict
                        THEN <<arabic_to_buckw_dict[word.val[1]]>> ELSE <<>>)
                       \o arabic_to_buckwalter_drop_unmapped(
                              PyValue(word.type, Tail(word.val))).val]

\* arabic_to_buckwalter(word).  Iterating None raises TypeError; iterating
\* bytes yields ints, none is a key of the table, and res += letter raises
\* TypeError on the first one.  The result is [exc, val].
arabic_to_buckwalter(word) ==
    IF word.type = "NoneType" \/ (word.type = "bytes" /\ word.val # <<>>)
    THEN [exc |-> "TypeError", val |-> <<>>]
    ELSE [exc |-> "none",
          val |-> [k \in 1..Len(word.val) |->
                     IF word.val[k] \in DOMAIN arabic_to_buckw_dict
                     THEN arabic_to_buckw_dict[word.val[k]]
                     ELSE word.val[k]]]

\* The gemination fallback without the lookup of the repeated character: the
\* raw character doubled, which is the unit itself.
buckwalter_to_ipa_phoneme_raw_double(buckwalter_phoneme) ==
    IF buckwalter_phoneme \in DOMAIN buckwalter_to_ipa
    THEN buckwalter_to_ipa[buckwalter_phoneme]
    ELSE buckwalter_phoneme

\* buckwalter_to_ipa_phoneme(buckwalter_phoneme)
buckwalter_to_ipa_phoneme(buckwalter_phoneme) ==
    IF buckwalter_phoneme \in DOMAIN buckwalter_to_ipa
    THEN buckwalter_to_ipa[buckwalter_phoneme]
    ELSE IF Len(buckwalter_phoneme) = 2
            /\ buckwalter_phoneme[1] = buckwalter_phoneme[2]
         THEN LET c == <<buckwalter_phoneme[1]>>
                  base_phoneme == IF c \in DOMAIN buckwalter_to_ipa
                                  THEN buckwalter_to_ipa[c] ELSE c
              IN  base_phoneme \o base_phoneme
         ELSE buckwalter_phoneme

\* re.sub('^>([^auAw])', '>a\\1', s): anchored at the start of the string.
sub_hamza_initial(s) ==
    IF Len(s) >= 2 /\ s[1] = ">" /\ s[2] \notin {"a", "u", "A", "w"}
    THEN <<">", "a">> \o Tail(s)
    ELSE s

\* re.sub(' >([^auAw ])', ' >a\\1', s): leftmost, non-overlapping matches.
RECURSIVE sub_hamza_after_space(_)
sub_hamza_after_space(s) ==
    IF Len(s) < 3 THEN s
    ELSE IF s[1] = " " /\ s[2] = ">" /\ s[3] \notin {"a", "u", "A", "w", " "}
         THEN <<" ", ">", "a", s[3]>> \o sub_hamza_after_space(Drop(s, 3))
         ELSE <<s[1]>> \o sub_hamza_after_space(Tail(s))

\* re.sub('<([^i])', '<i\\1', s): the group is consumed by the match.
RECURSIVE sub_hamza_below(_)
sub_hamza_below(s) ==
    IF Len(s) < 2 THEN s
    ELSE IF s[1] = "<" /\ s[2] # "i"
         THEN <<"<", "i", s[2]>> \o sub_hamza_below(Drop(s, 2))
         ELSE <<s[1]>> \o sub_hamza_below(Tail(s))

\* preprocess_utterance with the nunation expansion F -> an moved before the
\* digraph collapse AF -> F.
preprocess_utterance_nunation_first(utterance) ==
    LET u1  == replace(utterance, <<"F">>, <<"a", "n">>)
        u2  == replace(u1, <<"U+0640">>, <<>>)
        u3  == replace(u2, <<"o">>, <<>>)
        u4  == replace(u3, <<"a", "A">>, <<"A">>)
        u5  == replace(u4, <<"a", "Y">>, <<"Y">>)
        u6  == replace(u5, <<" ", "A">>, <<" ">>)
        u7  == replace(u6, <<"A", "F">>, <<"F">>)
        u8  == replace(u7, <<"N">>, <<"u", "n">>)
        u9  == replace(u8, <<"K">>, <<"i", "n">>)
        u10 == replace(u9, <<"|">>, <<">", "A">>)
        u11 == replace(u10, <<"A", "i">>, <<"<", "i">>)
        u12 == replace(u11, <<"A", "a">>, <<">", "a">>)
        u13 == replace(u12, <<"A", "u">>, <<">", "u">>)
        u14 == sub_hamza_initial(u13)
        u15 == sub_hamza_after_space(u14)
        u16 == sub_hamza_below(u15)
    IN  split(u16, <<" ">>)

\* preprocess_utterance(utterance): one line of the source per step.
preprocess_utterance(utterance) ==
    LET u1  == replace(utterance, <<"A", "F">>, <<"F">>)
        u2  == replace(u1, <<"U+0640">>, <<>>)
        u3  == replace(u2, <<"o">>, <<>>)
        u4  == replace(u3, <<"a", "A">>, <<"A">>)
        u5  == replace(u4, <<"a", "Y">>, <<"Y">>)
        u6  == replace(u5, <<" ", "A">>, <<" ">>)
        u7  == replace(u6, <<"F">>, <<"a", "n">>)
        u8  == replace(u7, <<"N">>, <<"u", "n">>)
        u9  == replace(u8, <<"K">>, <<"i", "n">>)
        u10 == replace(u9, <<"|">>, <<">", "A">>)
        u11 == replace(u10, <<"A", "i">>, <<"<", "i">>)
        u12 == replace(u11, <<"A", "a">>, <<">", "a">>)
        u13 == replace(u12, <<"A", "u">>, <<">", "u">>)
        u14 == sub_hamza_initial(u13)
        u15 == sub_hamza_after_space(u14)
        u16 == sub_hamza_below(u15)
    IN  split(u16, <<" ">>)

\* The single-character branch with an else that appends the raw character.
single_char_unit_pass_through(char) ==
    IF char \in DOMAIN unambiguousConsonantMap
    THEN << <<unambiguousConsonantMap[char]>> >>
    ELSE IF char \in DOMAIN vowelMap THEN <<vowelMap[char]>>
    ELSE << <<char>> >>

\* The single-character branch of process_word_simple: the units appended
\* for char (one, or none when the character is skipped).
single_char_unit(char) ==
    IF char \in DOMAIN unambiguousConsonantMap
    THEN << <<unambiguousConsonantMap[char]>> >>
    ELSE IF char \in DOMAIN vowelMap THEN <<vowelMap[char]>>
    ELSE IF char \in consonants \/ char \in {"w", "y"} THEN << <<char>> >>
    ELSE <<>>

\* The conversion loop of process_word_simple: empty symbols are dropped.
RECURSIVE to_ipa_phonemes(_)
to_ipa_phonemes(phonemes) ==
    IF phonemes = <<>> THEN <<>>
    ELSE LET ipa_phoneme == buckwalter_to_ipa_phoneme(phonemes[1])
         IN  (IF ipa_phoneme # <<>> THEN <<ipa_phoneme>> ELSE <<>>)
             \o to_ipa_phonemes(Tail(phonemes))

\* The return without the 'sil' fallback.
word_result_no_fallback(ipa_phonemes) == ipa_phonemes

\* return ipa_phonemes if ipa_phonemes else ['sil']
word_result(ipa_phonemes) ==
    IF ipa_phonemes # <<>> THEN ipa_phonemes ELSE <<Sil>>

\* "not word or word in ['-', 'sil']" of process_word_simple.
word_is_trivial(word) ==
    \/ word.type = "NoneType"
    \/ word.val = <<>>
    \/ word.type = "str" /\ word.val \in {Hyphen, Sil}

\* "word in ['-', 'sil'] or not word.strip()" of process_utterance.
is_silence_word(word) ==
    word \in {Hyphen, Sil} \/ strip_is_empty(word)

\* The final join with the words separated by a bare space.
render_space_only(phonemes) ==
    join([k \in 1..Len(phonemes) |-> join(phonemes[k], <<" ">>)], <<" ">>)

\* ' + '.join(' '.join(str(phon) for phon in phones) for phones in phonemes)
render(phonemes) ==
    join([k \in 1..Len(phonemes) |-> join(phonemes[k], <<" ">>)],
         <<" ", "+", " ">>)

\* A handler that names the wrong exception class.
catches_value_error_only(exc) == exc = "ValueError"

\* "except Exception": every exception the pipeline can raise is caught.
catches(exc) == exc \in {"TypeError", "ValueError", "KeyError", "IndexError"}

\* ------------------------------------------------------------------ inputs

\* Characters of the enumerated utterances: alif, nunation, short vowels,
\* the space, the five hamza seats, a plain consonant and the hyphen.
UtteranceAlphabet ==
    {"A", "F", "a", "i", " ", ">", "<", "'", "}", "&", "b", "-"}

\* Utterances beyond the enumerated ones: the texts of test_arabic_g2p
\* (src/debug_dataset.py), explicit silence words, whitespace other than the
\* space, Arabic hamza letters, and the rules the alphabet does not reach.
SampleUtterances ==
    {<<"U+0645", "U+0631", "U+062D", "U+0628", "U+0627">>,
     <<"U+0643", "U+064A", "U+0641", " ", "U+062D", "U+0627", "U+0644", "U+0643">>,
     <<"U+0634", "U+0643", "U+0631", "U+0627">>,
     <<"U+0627", "U+0644", "U+0644", "U+0647">>,
     <<"E", "g", "y", "p", "t">>,
     Sil,
     <<"b", " ", "s", "i", "l", " ", "-">>,
     <<"s", "i", "l", " ", " ", "b", "a">>,
     <<"U+0009", " ", "b", " ", "U+0009", "U+000A">>,
     <<"U+0623">>, <<"U+0625">>, <<"U+0621">>, <<"U+0626">>, <<"U+0624">>,
     <<"U+0628", "U+0623", "U+064E">>,
     <<"k", "i", "t", "A", "b", "A", "F">>,
     <<"U+0643", "U+062A", "U+0627", "U+0628", "U+0627", "U+064B">>,
     <<"b", "U+0640", "o", "N", " ", "|", "K", "a", "Y", " ", "A", "u">>}

\* Arguments that are no str.
NonStrValues ==
    {PyNone, PyValue("bytes", <<>>), PyValue("bytes", <<216, 167>>)}

Utterances ==
    {PyStr(s) : s \in StrUpTo(UtteranceAlphabet, MaxLen) \cup SampleUtterances}
    \cup NonStrValues

\* Words given to process_word_simple directly.
WordAlphabet == {"a", "i", "A", "I", "Y", "b", "w", "}", "-", "U+0634"}

DirectWords ==
    {PyStr(s) : s \in StrUpTo(WordAlphabet, MaxLen) \cup {Sil}} \cup NonStrValues

\* Units given to buckwalter_to_ipa_phoneme directly.
UnitAlphabet == {"a", "i", "I", "b", "*", "j", "0", "+"}

DirectUnits == StrUpTo(UnitAlphabet, MaxLen)

\* ------------------------------------------------------------------- state

VARIABLES
    entry,              \* the method the caller invoked
    round,              \* 1: the caller's argument; 2: process_utterance on its own output
    pc,                 \* position in the code
    exc,                \* the exception raised, "none" if none
    utterance,          \* process_utterance: the parameter (a Python value)
    buckwalter_text,    \* process_utterance: buckwalter_text
    words,              \* process_utterance: words
    phonemes,           \* process_utterance: phonemes, one list per word done
    word,               \* process_word_simple: the parameter (a Python value)
    buckwalter_word,    \* process_word_simple: buckwalter_word
    word_phonemes,      \* process_word_simple: phonemes (Buckwalter units)
    i,                  \* process_word_simple: the cursor
    iterations,         \* process_word_simple: iterations of the while loop so far
    buckwalter_phoneme, \* buckwalter_to_ipa_phoneme: the parameter
    result              \* the value returned to the caller

vars ==
    <<entry, round, pc, exc, utterance, buckwalter_text, words, phonemes, word,
      buckwalter_word, word_phonemes, i, iterations, buckwalter_phoneme, result>>

utterance_vars == <<utterance, buckwalter_text, words>>
word_vars == <<word, buckwalter_word, word_phonemes, i, iterations>>

Init ==
    /\ round = 1
    /\ pc = "call"
    /\ exc = "none"
    /\ buckwalter_text = <<>>
    /\ words = <<>>
    /\ phonemes = <<>>
    /\ buckwalter_word = <<>>
    /\ word_phonemes = <<>>
    /\ i = 0
    /\ iterations = 0
    /\ result = <<>>
    /\ \/ /\ entry = "process_utterance"
          /\ utterance \in Utterances
          /\ word = PyStr(<<>>)
          /\ buckwalter_phoneme = <<>>
       \/ /\ entry = "process_word_simple"
          /\ utterance = PyStr(<<>>)
          /\ word \in DirectWords
          /\ buckwalter_phoneme = <<>>
       \/ /\ entry = "buckwalter_to_ipa_phoneme"
          /\ utterance = PyStr(<<>>)
          /\ word = PyStr(<<>>)
          /\ buckwalter_phoneme \in DirectUnits

\* ----------------------------------------------------------------- actions

\* An exception raised at this point: to the handler of process_utterance
\* when the call is inside its try block and the handler catches it, else
\* out to the caller.
Raise(e) ==
    /\ exc' = e
    /\ pc' = IF entry = "process_utterance" /\ catches(e)
             THEN "except" ELSE "propagated"

\* process_utterance, lines 177-182: transliterate, preprocess and split.
ProcessUtterance ==
    /\ pc = "call"
    /\ entry = "process_utterance"
    /\ LET b == arabic_to_buckwalter(utterance)
       IN  IF b.exc # "none"
           THEN /\ Raise(b.exc)
                /\ UNCHANGED <<buckwalter_text, words>>
           ELSE /\ buckwalter_text' = b.val
                /\ words' = preprocess_utterance(b.val)
                /\ pc' = "for_word"
                /\ exc' = exc
    /\ UNCHANGED <<entry, round, utterance, phonemes, word_vars,
                   buckwalter_phoneme, result>>

\* The word the for loop of process_utterance is at.
current_word == words[Len(phonemes) + 1]

\* process_utterance, lines 185-188: a silence word.
SilenceWord ==
    /\ pc = "for_word"
    /\ Len(phonemes) < Len(words)
    /\ is_silence_word(current_word)
    /\ phonemes' = Append(phonemes, <<Sil>>)
    /\ UNCHANGED <<entry, round, pc, exc, utterance_vars, word_vars,
                   buckwalter_phoneme, result>>

\* process_utterance, line 190: the call of process_word_simple.
CallProcessWordSimple ==
    /\ pc = "for_word"
    /\ Len(phonemes) < Len(words)
    /\ ~is_silence_word(current_word)
    /\ word' = PyStr(current_word)
    /\ pc' = "process_word_simple"
    /\ UNCHANGED <<entry, round, exc, utterance_vars, phonemes, buckwalter_word,
                   word_phonemes, i, iterations, buckwalter_phoneme, result>>

\* A direct call of process_word_simple.
DirectProcessWordSimple ==
    /\ pc = "call"
    /\ entry = "process_word_simple"
    /\ pc' = "process_word_simple"
    /\ UNCHANGED <<entry, round, exc, utterance_vars, phonemes, word_vars,
                   buckwalter_phoneme, result>>

\* process_word_simple returns value: into phonemes of process_utterance
\* (line 191), or to the direct caller.
ReturnWord(value) ==
    IF entry = "process_utterance"
    THEN /\ phonemes' = Append(phonemes, value)
         /\ pc' = "for_word"
         /\ result' = result
    ELSE /\ result' = value
         /\ pc' = "done"
         /\ phonemes' = phonemes

\* process_word_simple, lines 136-144: the early return, or transliterate
\* and start the scan.
EnterWord ==
    /\ pc = "process_word_simple"
    /\ IF word_is_trivial(word)
       THEN /\ ReturnWord(<<Sil>>)
            /\ UNCHANGED <<exc, buckwalter_word, word_phonemes, i, iterations>>
       ELSE LET b == arabic_to_buckwalter(word)
            IN  IF b.exc # "none"
                THEN /\ Raise(b.exc)
                     /\ UNCHANGED <<phonemes, result, buckwalter_word,
                                    word_phonemes, i, iterations>>
                ELSE /\ buckwalter_word' = b.val
                     /\ word_phonemes' = <<>>
                     /\ i' = 0
                     /\ iterations' = 0
                     /\ pc' = "while"
                     /\ UNCHANGED <<exc, phonemes, result>>
    /\ UNCHANGED <<entry, round, utterance_vars, word, buckwalter_phoneme>>

\* buckwalter_word[i:i+2] (i counted from 0, as in the source).
two_char == SubSeq(buckwalter_word, i + 1, i + 2)

\* The condition of lines 149-151: a two-character combination is next.
digraph_next ==
    /\ i < Len(buckwalter_word) - 1
    /\ two_char \in long_vowel_digraphs

\* "i += 1" at the end of the loop body (line 164).
SingleAdvance == 1

\* The two-character branch advancing like the single-character one.
DigraphAdvanceByOne == SingleAdvance

\* "i += 2" after a two-character combination (line 153).
DigraphAdvance == 2

\* process_word_simple, lines 149-154: a two-character combination.
ScanDigraph ==
    /\ pc = "while"
    /\ i < Len(buckwalter_word)
    /\ digraph_next
    /\ word_phonemes' = Append(word_phonemes, two_char)
    /\ i' = i + DigraphAdvance
    /\ iterations' = iterations + 1
    /\ UNCHANGED <<entry, round, pc, exc, utterance_vars, phonemes, word,
                   buckwalter_word, buckwalter_phoneme, result>>

\* process_word_simple, lines 157-164: a single character that is a unit.
ScanEmit ==
    /\ pc = "while"
    /\ i < Len(buckwalter_word)
    /\ ~digraph_next
    /\ single_char_unit(buckwalter_word[i + 1]) # <<>>
    /\ word_phonemes' = word_phonemes \o single_char_unit(buckwalter_word[i + 1])
    /\ i' = i + SingleAdvance
    /\ iterations' = iterations + 1
    /\ UNCHANGED <<entry, round, pc, exc, utterance_vars, phonemes, word,
                   buckwalter_word, buckwalter_phoneme, result>>

\* process_word_simple, lines 157-164: a character of no table is skipped.
ScanSkip ==
    /\ pc = "while"
    /\ i < Len(buckwalter_word)
    /\ ~digraph_next
    /\ single_char_unit(buckwalter_word[i + 1]) = <<>>
    /\ i' = i + SingleAdvance
    /\ iterations' = iterations + 1
    /\ UNCHANGED <<entry, round, pc, exc, utterance_vars, phonemes, word,
                   buckwalter_word, word_phonemes, buckwalter_phoneme, result>>

\* process_word_simple, lines 145 and 166-173: the loop ends, the units are
\* converted and the word is returned.
ConvertWord ==
    /\ pc = "while"
    /\ ~(i < Len(buckwalter_word))
    /\ ReturnWord(word_result(to_ipa_phonemes(word_phonemes)))
    /\ UNCHANGED <<entry, round, exc, utterance_vars, word_vars,
                   buckwalter_phoneme>>

\* process_utterance, lines 194-195: the loop is over, join and return.
JoinWords ==
    /\ pc = "for_word"
    /\ entry = "process_utterance"
    /\ Len(phonemes) = Len(words)
    /\ result' = render(phonemes)
    /\ pc' = "done"
    /\ UNCHANGED <<entry, round, exc, utterance_vars, phonemes, word_vars,
                   buckwalter_phoneme>>

\* process_utterance, lines 197-199: the handler returns "sil" (its print
\* writes to stdout only).
HandleException ==
    /\ pc = "except"
    /\ result' = Sil
    /\ pc' = "done"
    /\ UNCHANGED <<entry, round, exc, utterance_vars, phonemes, word_vars,
                   buckwalter_phoneme>>

\* A direct call of buckwalter_to_ipa_phoneme.
DirectPhoneme ==
    /\ pc = "call"
    /\ entry = "buckwalter_to_ipa_phoneme"
    /\ result' = buckwalter_to_ipa_phoneme(buckwalter_phoneme)
    /\ pc' = "done"
    /\ UNCHANGED <<entry, round, exc, utterance_vars, phonemes, word_vars,
                   buckwalter_phoneme>>

\* The caller gives the output of process_utterance back to it as plain
\* text: g2p(g2p(x)).
Reprocess ==
    /\ pc = "done"
    /\ entry = "process_utterance"
    /\ round = 1
    /\ round' = 2
    /\ utterance' = PyStr(result)
    /\ pc' = "call"
    /\ exc' = "none"
    /\ buckwalter_text' = <<>>
    /\ words' = <<>>
    /\ phonemes' = <<>>
    /\ word' = PyStr(<<>>)
    /\ buckwalter_word' = <<>>
    /\ word_phonemes' = <<>>
    /\ i' = 0
    /\ iterations' = 0
    /\ result' = <<>>
    /\ UNCHANGED <<entry, buckwalter_phoneme>>

Next ==
    \/ ProcessUtterance
    \/ SilenceWord
    \/ CallProcessWordSimple
    \/ DirectProcessWordSimple
    \/ EnterWord
    \/ ScanDigraph
    \/ ScanEmit
    \/ ScanSkip
    \/ ConvertWord
    \/ JoinWords
    \/ HandleException
    \/ DirectPhoneme
    \/ Reprocess

Spec == Init /\ [][Next]_vars

\* ------------------------------------------------------------------ claims

Separator == <<" ", "+", " ">>
Space == <<" ">>
GlottalStop == <<"U+0294">>

\* process_utterance has returned a value to its caller.
UtteranceDone == pc = "done" /\ entry = "process_utterance"

\* C1 (totality): a call of process_utterance never ends with an exception
\* propagated to the caller, whatever the argument (str, bytes, None); the
\* value it returns is a non-empty string, and it is exactly "sil" whenever a
\* stage raised.
C1_Totality ==
    entry = "process_utterance" =>
        /\ pc # "propagated"
        /\ pc = "done" => /\ result # <<>>
                          /\ exc # "none" => result = Sil

\* A bytes argument made the transliteration raise and "sil" came back.
C1_Witness ==
    /\ UtteranceDone
    /\ utterance.type = "bytes"
    /\ exc = "TypeError"
    /\ result = Sil

\* A word that is "-", "sil", empty or whitespace-only.
SilenceLike(w) ==
    w = <<"-">> \/ w = <<"s", "i", "l">> \/ \A k \in 1..Len(w) : w[k] \in Whitespace

\* C2 (silence words): process_utterance of "-", "sil" and "" is exactly
\* "sil"; and every space-separated word of the utterance that is "-", "sil",
\* empty or whitespace-only is rendered, at its own position among the
\* " + "-separated segments of the output, as the single token "sil".
C2_SilenceWords ==
    (UtteranceDone /\ utterance.type = "str") =>
        LET ws   == split(utterance.val, Space)
            segs == split(result, Separator)
        IN  /\ utterance.val \in {<<"-">>, <<"s", "i", "l">>, <<>>} => result = Sil
            /\ Len(phonemes) = Len(ws)
            /\ Len(segs) = Len(ws)
            /\ \A k \in 1..Len(ws) :
                   SilenceLike(ws[k]) => phonemes[k] = <<Sil>> /\ segs[k] = Sil

\* "b sil -" came out as "b + sil + sil".
C2_Witness ==
    /\ UtteranceDone
    /\ utterance.type = "str"
    /\ utterance.val = <<"b", " ", "s", "i", "l", " ", "-">>
    /\ result = <<"b">> \o Separator \o Sil \o Separator \o Sil

\* C3 (word-count preservation): for a str utterance of n space-separated
\* pieces the output holds exactly n-1 occurrences of " + "; transliteration
\* and normalisation keep the number of spaces (n words come out of the
\* split), and no word renders to an empty segment.
C3_WordCount ==
    (UtteranceDone /\ utterance.type = "str") =>
        LET n == Len(split(utterance.val, Space))
        IN  /\ count(result, Separator) = n - 1
            /\ count(buckwalter_text, Space) = n - 1
            /\ Len(words) = n
            /\ Len(phonemes) = n
            /\ \A k \in 1..Len(phonemes) :
                   phonemes[k] # <<>> /\ join(phonemes[k], Space) # <<>>

\* "b A": the rule that deletes an alif after a space kept the space, and
\* the emptied second word is a segment of its own.
C3_Witness ==
    /\ UtteranceDone
    /\ utterance.type = "str"
    /\ utterance.val = <<"b", " ", "A">>
    /\ words = << <<"b">>, <<>> >>
    /\ result = <<"b">> \o Separator \o Sil

\* C4, as claimed (round-trip stability): process_utterance applied to its
\* own output y does not raise and returns y unchanged or exactly "sil".
C4_RoundTripStable ==
    (UtteranceDone /\ round = 2) =>
        /\ exc = "none"
        /\ result = utterance.val \/ result = Sil

\* C4, amended: process_utterance applied to its own output y does not
\* raise and returns a non-empty string that has one " + "-separated segment
\* for each space-separated piece of y, none of them empty; it returns "sil"
\* for y = "sil", but in general neither y nor "sil".
C4_ReprocessTotal ==
    (entry = "process_utterance" /\ round = 2) =>
        /\ pc # "propagated"
        /\ exc = "none"
        /\ pc = "done" =>
              /\ result # <<>>
              /\ Len(split(result, Separator)) = Len(split(utterance.val, Space))
              /\ \A k \in 1..Len(phonemes) : phonemes[k] # <<>>
              /\ utterance.val = Sil => result = Sil

\* The output "a:" (long a) was given back and came out as the short "a".
C4_Witness ==
    /\ UtteranceDone
    /\ round = 2
    /\ utterance.type = "str"
    /\ utterance.val = <<"a", "U+02D0">>
    /\ result = <<"a">>

\* The symbols of a word are free of delimiters.
DelimiterFree(symbols) ==
    \A j \in 1..Len(symbols) :
        /\ symbols[j] # <<>>
        /\ \A c \in 1..Len(symbols[j]) :
               symbols[j][c] \notin Whitespace /\ symbols[j][c] # "+"

\* C5 (delimiter-free symbols): every symbol process_utterance emits, and
\* every symbol process_word_simple returns, is non-empty and holds no
\* whitespace and no "+"; so splitting the output on " + " and then on
\* single spaces gives back exactly the symbol sequence of every word.
C5_DelimiterFree ==
    /\ (pc = "done" /\ entry = "process_word_simple") => DelimiterFree(result)
    /\ (UtteranceDone /\ exc = "none") =>
          /\ \A k \in 1..Len(phonemes) : DelimiterFree(phonemes[k])
          /\ LET segs == split(result, Separator)
             IN  [k \in 1..Len(segs) |-> split(segs[k], Space)] = phonemes

\* A two-word utterance with multi-character symbols was rendered: the
\* second text of test_arabic_g2p.
C5_Witness ==
    /\ UtteranceDone
    /\ Len(phonemes) = 2
    /\ Len(phonemes[1]) = 3
    /\ phonemes[2] = << <<"U+0127">>, <<"a", "U+02D0">>, <<"l">>, <<"k">> >>

\* The five hamza seats, in the working alphabet and in Arabic script.
HamzaSeats ==
    {">", "<", "'", "}", "&", "U+0623", "U+0625", "U+0621", "U+0626", "U+0624"}

\* The short vowel letters, and the symbols of the vowels they make (two
\* equal short vowels in a row are a long-vowel digraph).
ShortVowelLetters == {"a", "i", "u", "U+064E", "U+0650", "U+064F"}
IsVowelSymbol(sym) ==
    sym \in {<<"a">>, <<"i">>, <<"u">>,
             <<"a", "U+02D0">>, <<"i", "U+02D0">>, <<"u", "U+02D0">>}
IsConsonantSymbol(sym) == ~IsVowelSymbol(sym)

\* A one-word utterance whose sole consonant is a hamza seat: one hamza
\* letter, short vowels around it.
SoleHamzaWord(v) ==
    /\ Cardinality({k \in 1..Len(v) : v[k] \in HamzaSeats}) = 1
    /\ \A k \in 1..Len(v) : v[k] \in HamzaSeats \cup ShortVowelLetters

\* C6 (hamza collapse): a word whose sole consonant is one of the five
\* hamza seats is rendered with exactly one consonant symbol, the glottal
\* stop, the same for all five seats.
C6_HamzaCollapse ==
    (UtteranceDone /\ round = 1 /\ utterance.type = "str"
        /\ SoleHamzaWord(utterance.val)) =>
        /\ Len(phonemes) = 1
        /\ SelectSeq(phonemes[1], IsConsonantSymbol) = <<GlottalStop>>

\* The word "}a" (hamza on a ya seat, then a) was rendered as glottal stop, a.
C6_Witness ==
    /\ UtteranceDone
    /\ utterance.type = "str"
    /\ utterance.val = <<"}", "a">>
    /\ phonemes = << <<GlottalStop, <<"a">> >> >>

\* C7 (gemination fallback): buckwalter_to_ipa_phoneme returns the table
\* value of a unit that is a key; for a unit of two identical characters cc
\* that is no key it returns s+s, s the table value of c or c itself when c
\* is no key ("bb" gives "bb", "**" gives "zz"); any other unit comes back
\* unchanged.
C7_Gemination ==
    (pc = "done" /\ entry = "buckwalter_to_ipa_phoneme") =>
        LET u == buckwalter_phoneme
            s == IF <<u[1]>> \in DOMAIN buckwalter_to_ipa
                 THEN buckwalter_to_ipa[<<u[1]>>] ELSE <<u[1]>>
        IN  /\ u \in DOMAIN buckwalter_to_ipa => result = buckwalter_to_ipa[u]
            /\ (u \notin DOMAIN buckwalter_to_ipa /\ Len(u) = 2 /\ u[1] = u[2])
                  => result = s \o s
            /\ (u \notin DOMAIN buckwalter_to_ipa /\ ~(Len(u) = 2 /\ u[1] = u[2]))
                  => result = u
            /\ u = <<"b", "b">> => result = <<"b", "b">>
            /\ u = <<"*", "*">> => result = <<"z", "z">>
            /\ u = <<"j", "j">> => result = <<"g", "g">>
            /\ u = <<"I", "I">> => result = <<"I", "I">>
            /\ u = <<"a", "a">> => result = <<"a", "U+02D0">>

\* The unit "**" went through the fallback and came back as "zz".
C7_Witness ==
    /\ pc = "done"
    /\ entry = "buckwalter_to_ipa_phoneme"
    /\ buckwalter_phoneme = <<"*", "*">>
    /\ result = <<"z", "z">>

\* The cursor is on a single letter of L that starts no digraph.
OnSingle(L) ==
    /\ pc = "while"
    /\ i < Len(buckwalter_word)
    /\ ~digraph_next
    /\ buckwalter_word[i + 1] \in L

\* C8, as claimed (short-vowel expansion): on a single short vowel a, i or u
\* that is part of no long-vowel digraph, the tokenizer emits the
\* two-character long spelling aa, ii, uu.
C8_ShortVowelExpanded ==
    [][OnSingle({"a", "i", "u"}) =>
         word_phonemes' = Append(word_phonemes,
                                 <<buckwalter_word[i + 1], buckwalter_word[i + 1]>>)]_vars

\* C8, amended: on a single short vowel a, i or u that is part of no
\* long-vowel digraph, the tokenizer emits that single letter; only the alif
\* letters A and Y are emitted as the two-character spelling aa.
C8_ShortVowelKept ==
    [][/\ OnSingle({"a", "i", "u"}) =>
          word_phonemes' = Append(word_phonemes, <<buckwalter_word[i + 1]>>)
       /\ OnSingle({"A", "Y"}) =>
          word_phonemes' = Append(word_phonemes, <<"a", "a">>)]_vars

\* The scan of "ia" has passed the single i and emitted the unit i.
C8_Witness ==
    /\ pc = "while"
    /\ buckwalter_word = <<"i", "a">>
    /\ i = 1
    /\ word_phonemes = << <<"i">> >>

\* C9 (rule order): the digraph AF is collapsed to F before F is expanded to
\* an, each rule running once over the whole text.  So an utterance is
\* normalised exactly as the same utterance with every AF written "an": no
\* alif of the digraph survives, no F is left, the text never holds "Aan",
\* and there are at least as many "an" as there were AF.
C9_RuleOrder ==
    (entry = "process_utterance" /\ pc \in {"for_word", "done"} /\ exc = "none") =>
        LET text == join(words, Space)
        IN  /\ words = preprocess_utterance(
                           replace(buckwalter_text, <<"A", "F">>, <<"a", "n">>))
            /\ count(text, <<"F">>) = 0
            /\ count(text, <<"A", "a", "n">>) = 0
            /\ count(text, <<"a", "n">>) >= count(buckwalter_text, <<"A", "F">>)

\* "bAF" was normalised to the one word "ban".
C9_Witness ==
    /\ UtteranceDone
    /\ buckwalter_text = <<"b", "A", "F">>
    /\ words = << <<"b", "a", "n">> >>

\* The value process_word_simple hands back in this step.
Returned == IF entry = "process_utterance" THEN phonemes'[Len(phonemes')] ELSE result'

\* C10 (tokenizer termination): every iteration of the scan loop moves the
\* cursor forward, by 2 when a long-vowel digraph is matched and by 1
\* otherwise (a skipped character included), never beyond the end of the
\* word; the loop ends with the cursor at the end after at most len(word)
\* iterations, and a word of which nothing was emitted yields ['sil'].
C10_Termination ==
    [][/\ (pc = "while" /\ i < Len(buckwalter_word)) =>
            /\ pc' = "while"
            /\ i' = i + (IF digraph_next THEN 2 ELSE 1)
            /\ i' <= Len(buckwalter_word)
            /\ iterations' = iterations + 1
            /\ iterations' <= Len(buckwalter_word)
            /\ single_char_unit(buckwalter_word[i + 1]) = <<>> /\ ~digraph_next
                  => word_phonemes' = word_phonemes
       /\ (pc = "while" /\ ~(i < Len(buckwalter_word))) =>
            /\ pc' # "while"
            /\ i >= Len(buckwalter_word)
            /\ iterations <= Len(buckwalter_word)
            /\ word_phonemes = <<>> => Returned = <<Sil>>]_vars

\* The scan of "aa-" ended after two iterations: the digraph, then a skip.
C10_Witness ==
    /\ pc = "done"
    /\ entry = "process_word_simple"
    /\ buckwalter_word = <<"a", "a", "-">>
    /\ i = 3
    /\ iterations = 2
    /\ result = << <<"a", "U+02D0">> >>

====
